---- MODULE Spec2Model ----
(***************************************************************************)
(* A model of the CBFD layer of src/cbfd.py: construction, lazy build,     *)
(* the forward computation with its auxiliary loss, shape inference and    *)
(* configuration export.                                                   *)
(*                                                                         *)
(* Tensors are arrays [shape, v] of rank 2 (v is a sequence of rows).      *)
(* Inputs and weights hold integers; the values the forward computation    *)
(* derives from them (b, Sw, Sb, the mean, F) are exact rationals [n, d]   *)
(* in lowest terms, which stand for the floating-point numbers of the      *)
(* backend (rounding is not modelled).  [n |-> 0, d |-> 0] is NaN.         *)
(* Python's None is the identifier None for a strategy and NoneDim for a   *)
(* dimension of a shape.  An operation that raises leaves a record with    *)
(* raised = TRUE in last and changes nothing else.                         *)
(***************************************************************************)
EXTENDS Integers, Sequences, FiniteSets, TLC

VARIABLES constructed, self, losses, config, last

vars == <<constructed, self, losses, config, last>>

(***************************************************************************)
(* Bounds of the model.                                                    *)
(***************************************************************************)
MaxUnits == 2
MaxDim == 2
MaxBatch == 3
MaxLosses == 2

(***************************************************************************)
(* Exact rational arithmetic (the backend's float arithmetic).             *)
(***************************************************************************)
Abs(n) == IF n < 0 THEN -n ELSE n

RECURSIVE Gcd(_, _)
Gcd(a, b) == IF b = 0 THEN a ELSE Gcd(b, a % b)

NaN == [n |-> 0, d |-> 0]

Rat(n, d) ==
    IF d = 0 THEN NaN
    ELSE LET g == Gcd(Abs(n), Abs(d))
             s == IF d < 0 THEN -1 ELSE 1
         IN  [n |-> s * (n \div g), d |-> s * (d \div g)]

FromInt(k) == [n |-> k, d |-> 1]

RAdd(p, q) ==
    IF p.d = 0 \/ q.d = 0 THEN NaN
    ELSE LET l == (p.d \div Gcd(p.d, q.d)) * q.d
         IN  Rat(p.n * (l \div p.d) + q.n * (l \div q.d), l)

RNeg(p) == [n |-> -p.n, d |-> p.d]

RSub(p, q) == RAdd(p, RNeg(q))

RMul(p, q) == IF p.d = 0 \/ q.d = 0 THEN NaN ELSE Rat(p.n * q.n, p.d * q.d)

RSquare(p) == RMul(p, p)

(***************************************************************************)
(* Arrays and the backend's broadcasting elementwise operations.           *)
(***************************************************************************)
NoArray == [shape |-> <<>>, v |-> <<>>]

IsNoArray(A) == A.shape = <<>>

\* A vector of shape (k,) broadcasts as a row of shape (1, k).
AsRow(vec) == [shape |-> <<1, Len(vec)>>, v |-> <<vec>>]

\* The broadcast of two dimensions, -1 when they are incompatible.
BroadcastDim(a, b) ==
    IF a = b THEN a ELSE IF a = 1 THEN b ELSE IF b = 1 THEN a ELSE -1

At(A, i, j) ==
    A.v[IF A.shape[1] = 1 THEN 1 ELSE i][IF A.shape[2] = 1 THEN 1 ELSE j]

\* The shape of a binary elementwise operation; <<>> when an operand is
\* missing or the shapes do not broadcast (the backend raises).
BroadcastShape(A, B) ==
    IF IsNoArray(A) \/ IsNoArray(B) THEN <<>>
    ELSE LET r == BroadcastDim(A.shape[1], B.shape[1])
             c == BroadcastDim(A.shape[2], B.shape[2])
         IN  IF r = -1 \/ c = -1 THEN <<>> ELSE <<r, c>>

\* A - B
Minus(A, B) ==
    LET sh == BroadcastShape(A, B)
    IN  IF sh = <<>> THEN NoArray
        ELSE [shape |-> sh,
              v |-> [i \in 1..sh[1] |-> [j \in 1..sh[2] |->
                        RSub(At(A, i, j), At(B, i, j))]]]

\* A + B
Plus(A, B) ==
    LET sh == BroadcastShape(A, B)
    IN  IF sh = <<>> THEN NoArray
        ELSE [shape |-> sh,
              v |-> [i \in 1..sh[1] |-> [j \in 1..sh[2] |->
                        RAdd(At(A, i, j), At(B, i, j))]]]

\* k * A
Scale(k, A) ==
    IF IsNoArray(A) THEN NoArray
    ELSE [A EXCEPT !.v = [i \in 1..A.shape[1] |-> [j \in 1..A.shape[2] |->
                             RMul(FromInt(k), A.v[i][j])]]]

\* A ** 2
Square(A) ==
    IF IsNoArray(A) THEN NoArray
    ELSE [A EXCEPT !.v = [i \in 1..A.shape[1] |-> [j \in 1..A.shape[2] |->
                             RSquare(A.v[i][j])]]]

\* An integer array as an array of rationals.
ToRat(A) ==
    IF IsNoArray(A) THEN NoArray
    ELSE [A EXCEPT !.v = [i \in 1..A.shape[1] |-> [j \in 1..A.shape[2] |->
                             FromInt(A.v[i][j])]]]

RECURSIVE SeqSum(_)
SeqSum(s) == IF s = <<>> THEN 0 ELSE Head(s) + SeqSum(Tail(s))

\* K.dot(inputs, kernel) for a rank-2 input; NoArray when the kernel is
\* missing or the inner dimensions differ (the call raises).
Dot(inputs, kernel) ==
    IF IsNoArray(kernel) THEN NoArray
    ELSE IF inputs.shape[2] # kernel.shape[1] THEN NoArray
    ELSE [shape |-> <<inputs.shape[1], kernel.shape[2]>>,
          v |-> [i \in 1..inputs.shape[1] |-> [j \in 1..kernel.shape[2] |->
                    SeqSum([k \in 1..kernel.shape[1] |->
                               inputs.v[i][k] * kernel.v[k][j]])]]]

Sign(y) == IF y > 0 THEN 1 ELSE IF y < 0 THEN -1 ELSE 0

\* K.mean(output, axis=-1): one mean per row, a vector of shape (batch,).
MeanLastAxis(output) ==
    AsRow([i \in 1..output.shape[1] |->
              Rat(SeqSum(output.v[i]), output.shape[2])])

(***************************************************************************)
(* The strategies (activation, initializer, regularizer, constraint): an  *)
(* identifier is None, a mnemonic or a serialized record; get resolves it  *)
(* to an object and serialize turns the object back into an identifier.    *)
(***************************************************************************)
None == [kind |-> "none", val |-> "None"]

Name(s) == [kind |-> "name", val |-> s]

Dict(s) == [kind |-> "dict", val |-> s]

Unknown == [obj |-> "?"]

ActivationsGet(id) ==
    IF id = None THEN [obj |-> "linear"]
    ELSE IF id.kind = "name" /\ id.val \in {"linear", "relu"} THEN [obj |-> id.val]
    ELSE Unknown

ActivationsSerialize(o) == Name(o.obj)

ClassOf(mnemonic) ==
    CASE mnemonic = "glorot_uniform" -> "GlorotUniform"
      [] mnemonic = "zeros" -> "Zeros"
      [] mnemonic = "ones" -> "Ones"
      [] mnemonic = "l1" -> "L1"
      [] mnemonic = "l2" -> "L2"
      [] mnemonic = "non_neg" -> "NonNeg"
      [] OTHER -> "?"

InitializersGet(id) ==
    IF id.kind = "dict" /\ id.val \in {"GlorotUniform", "Zeros", "Ones"}
    THEN [obj |-> id.val]
    ELSE IF id.kind = "name" /\ id.val \in {"glorot_uniform", "zeros", "ones"}
    THEN [obj |-> ClassOf(id.val)]
    ELSE Unknown

RegularizersGet(id) ==
    IF id = None THEN [obj |-> "None"]
    ELSE IF id.kind = "dict" /\ id.val \in {"L1", "L2"} THEN [obj |-> id.val]
    ELSE IF id.kind = "name" /\ id.val \in {"l1", "l2"} THEN [obj |-> ClassOf(id.val)]
    ELSE Unknown

ConstraintsGet(id) ==
    IF id = None THEN [obj |-> "None"]
    ELSE IF id.kind = "dict" /\ id.val \in {"NonNeg"} THEN [obj |-> id.val]
    ELSE IF id.kind = "name" /\ id.val \in {"non_neg"} THEN [obj |-> ClassOf(id.val)]
    ELSE Unknown

\* initializers / regularizers / constraints .serialize: None stays None, an
\* object becomes the record naming its class.
Serialize(o) == IF o.obj = "None" THEN None ELSE Dict(o.obj)

(***************************************************************************)
(* __init__ (lines 40-59).  args.keys are the keyword names passed; units, *)
(* m_w and m_b have no default, the strategies default as in the           *)
(* signature.                                                              *)
(***************************************************************************)
NoUnit ==
    [units |-> 0, mw |-> <<>>, mb |-> <<>>,
     activation |-> Unknown, kernel_initializer |-> Unknown,
     kernel_regularizer |-> Unknown, activity_regularizer |-> Unknown,
     kernel_constraint |-> Unknown, built |-> FALSE, kernel |-> NoArray]

RequiredArgs == {"units", "m_w", "m_b"}

Arg(args, key, default) == IF key \in args.keys THEN args[key] ELSE default

InitOutcome(args) ==
    IF ~(RequiredArgs \subseteq args.keys)
    THEN [raised |-> TRUE, err |-> "TypeError", unit |-> NoUnit]
    ELSE LET unit ==
                 [units |-> args.units, mw |-> args.m_w, mb |-> args.m_b,
                  activation |-> ActivationsGet(Arg(args, "activation", None)),
                  kernel_initializer |->
                      InitializersGet(Arg(args, "kernel_initializer",
                                          Name("glorot_uniform"))),
                  kernel_regularizer |->
                      RegularizersGet(Arg(args, "kernel_regularizer", None)),
                  activity_regularizer |->
                      RegularizersGet(Arg(args, "activity_regularizer", None)),
                  kernel_constraint |->
                      ConstraintsGet(Arg(args, "kernel_constraint", None)),
                  built |-> FALSE, kernel |-> NoArray]
         IN  IF Unknown \in {unit.activation, unit.kernel_initializer,
                             unit.kernel_regularizer, unit.activity_regularizer,
                             unit.kernel_constraint}
             THEN [raised |-> TRUE, err |-> "ValueError", unit |-> NoUnit]
             ELSE [raised |-> FALSE, err |-> "", unit |-> unit]

(***************************************************************************)
(* build (lines 61-71).  sample is the draw of a random initializer.       *)
(***************************************************************************)
NoneDim == -1

Pattern(name, i, j) ==
    CASE name = "zeros" -> 0
      [] name = "ones" -> 1
      [] name = "eye" -> IF i = j THEN 1 ELSE 0
      [] name = "neg_eye" -> IF i = j THEN -1 ELSE 0
      [] name = "checker" -> IF (i + j) % 2 = 0 THEN 1 ELSE -1
      [] name = "neg" -> -1

PatternArray(name, r, c) ==
    [shape |-> <<r, c>>,
     v |-> [i \in 1..r |-> [j \in 1..c |-> Pattern(name, i, j)]]]

\* A faulty variant: the weight matrix allocated as (units, input_dim).
KernelShapeTransposed(input_dim, units) == <<units, input_dim>>

\* shape=(input_dim, self.units)
KernelShape(input_dim, units) == <<input_dim, units>>

\* The initializer called on a shape.
Initialize(initializer, sample, shape) ==
    CASE initializer.obj = "Zeros" -> PatternArray("zeros", shape[1], shape[2])
      [] initializer.obj = "Ones" -> PatternArray("ones", shape[1], shape[2])
      [] OTHER -> PatternArray(sample, shape[1], shape[2])

\* A faulty variant: build accepting a shape of rank 1.
BuildRankAtLeastOne(input_shape) == Len(input_shape) >= 1

\* assert len(input_shape) >= 2
BuildRankOk(input_shape) == Len(input_shape) >= 2

\* int(input_shape[-1]) raises on None.
BuildDimOk(input_shape) == input_shape[Len(input_shape)] # NoneDim

\* add_weight raises on a negative dimension.
AddWeightOk(d, u) == d >= 0 /\ u >= 0

BuildOutcome(s, input_shape, sample) ==
    IF ~BuildRankOk(input_shape)
    THEN [raised |-> TRUE, err |-> "AssertionError", unit |-> s]
    ELSE IF ~BuildDimOk(input_shape)
    THEN [raised |-> TRUE, err |-> "TypeError", unit |-> s]
    ELSE LET input_dim == input_shape[Len(input_shape)]
         IN  IF ~AddWeightOk(input_dim, s.units)
             THEN [raised |-> TRUE, err |-> "ValueError", unit |-> s]
             ELSE [raised |-> FALSE, err |-> "",
                   unit |-> [s EXCEPT
                       !.kernel = Initialize(s.kernel_initializer, sample,
                                             KernelShape(input_dim, s.units)),
                       !.built = TRUE]]

(***************************************************************************)
(* call (lines 73-85).                                                     *)
(***************************************************************************)
Coef1 == 1000
Coef2 == 1000
Coef3 == 1000000

Half == Rat(1, 2)

One == FromInt(1)

\* self.activation(output): get(None) is the linear activation.
Activate(activation, output) ==
    IF activation.obj = "relu"
    THEN [output EXCEPT !.v =
             [i \in 1..output.shape[1] |-> [j \in 1..output.shape[2] |->
                 IF output.v[i][j] > 0 THEN output.v[i][j] ELSE 0]]]
    ELSE output

\* A faulty variant: 0.5 * (sign(output) + 1), a code in {0, 0.5, 1}.
BinarizeZeroOne(output) ==
    [output EXCEPT !.v =
        [i \in 1..output.shape[1] |-> [j \in 1..output.shape[2] |->
            RMul(Half, FromInt(Sign(output.v[i][j]) + 1))]]]

\* b = 0.5 * K.sign(output) + 1
Binarize(output) ==
    [output EXCEPT !.v =
        [i \in 1..output.shape[1] |-> [j \in 1..output.shape[2] |->
            RAdd(RMul(Half, FromInt(Sign(output.v[i][j]))), One)]]]

\* A faulty variant: Sw = m_w - b.
WithinScatterSwapped(b, mw) == Minus(ToRat(AsRow(mw)), b)

\* Sw = b - self.mw
WithinScatter(b, mw) == Minus(b, ToRat(AsRow(mw)))

\* Sb = b - self.mb
BetweenScatter(b, mb) == Minus(b, ToRat(AsRow(mb)))

\* b - 0.5
Centered(b) ==
    [b EXCEPT !.v = [i \in 1..b.shape[1] |-> [j \in 1..b.shape[2] |->
                        RSub(b.v[i][j], Half)]]]

\* F = Sw - Sb + 1e3*((b - 0.5) - output)**2 + 1e3*(b - 0.5)**2
\*       - 1e6*(b - K.mean(output, axis=-1))**2
Loss(Sw, Sb, b, output) ==
    Minus(Plus(Plus(Minus(Sw, Sb),
                    Scale(Coef1, Square(Minus(Centered(b), ToRat(output))))),
               Scale(Coef2, Square(Centered(b)))),
          Scale(Coef3, Square(Minus(b, MeanLastAxis(output)))))

\* A faulty variant: a registration that drops the losses registered before.
AddLossReplacing(registered, F) == <<F>>

\* self.add_loss(F)
AddLoss(registered, F) == Append(registered, F)

CallOutcome(s, inputs) ==
    LET dot == Dot(inputs, s.kernel)
    IN  IF IsNoArray(dot)
        THEN [raised |-> TRUE, b |-> NoArray, F |-> NoArray]
        ELSE LET output == Activate(s.activation, dot)
                 b == Binarize(output)
                 Sw == WithinScatter(b, s.mw)
                 Sb == BetweenScatter(b, s.mb)
                 F == Loss(Sw, Sb, b, output)
             IN  IF IsNoArray(F)
                 THEN [raised |-> TRUE, b |-> NoArray, F |-> NoArray]
                 ELSE [raised |-> FALSE, b |-> b, F |-> F]

(***************************************************************************)
(* compute_output_shape (lines 87-92).                                     *)
(***************************************************************************)
\* A faulty variant: the leading dimension replaced by units.
ReplaceFirst(input_shape, units) ==
    [i \in 1..Len(input_shape) |-> IF i = 1 THEN units ELSE input_shape[i]]

\* output_shape = list(input_shape); output_shape[-1] = self.units
ReplaceLast(input_shape, units) ==
    [i \in 1..Len(input_shape) |->
        IF i = Len(input_shape) THEN units ELSE input_shape[i]]

\* assert input_shape and len(input_shape) >= 2
OutputRankOk(input_shape) == input_shape # <<>> /\ Len(input_shape) >= 2

\* assert input_shape[-1]: None and 0 are both false.
OutputDimOk(input_shape) ==
    /\ input_shape[Len(input_shape)] # NoneDim
    /\ input_shape[Len(input_shape)] # 0

ComputeOutputShapeOutcome(s, input_shape) ==
    IF ~OutputRankOk(input_shape) \/ ~OutputDimOk(input_shape)
    THEN [raised |-> TRUE, out |-> <<>>]
    ELSE [raised |-> FALSE, out |-> ReplaceLast(input_shape, s.units)]

(***************************************************************************)
(* get_config (lines 94-105) and the reconstruction of a unit from the     *)
(* record: the class called with the record's items as keyword arguments.  *)
(***************************************************************************)
BaseConfigKeys == {"name", "trainable", "dtype"}

OwnConfigKeys ==
    {"units", "activation", "kernel_initializer", "kernel_regularizer",
     "activity_regularizer", "kernel_constraint"}

NoConfig ==
    [keys |-> {}, units |-> 0, m_w |-> <<>>, m_b |-> <<>>,
     activation |-> None, kernel_initializer |-> None,
     kernel_regularizer |-> None, activity_regularizer |-> None,
     kernel_constraint |-> None]

GetConfigOutcome(s) ==
    [NoConfig EXCEPT
        !.keys = BaseConfigKeys \cup OwnConfigKeys,
        !.units = s.units,
        !.activation = ActivationsSerialize(s.activation),
        !.kernel_initializer = Serialize(s.kernel_initializer),
        !.kernel_regularizer = Serialize(s.kernel_regularizer),
        !.activity_regularizer = Serialize(s.activity_regularizer),
        !.kernel_constraint = Serialize(s.kernel_constraint)]

FromConfigOutcome(cfg) == InitOutcome(cfg)

(***************************************************************************)
(* The arguments the operations are called with.                           *)
(***************************************************************************)
Const(k, c) == [i \in 1..k |-> c]

UnitsArgs == (-1)..MaxUnits

\* m_w and m_b of every length up to MaxUnits + 1, and a pair whose
\* entries differ from position to position.
MPair(k) == [m_w |-> Const(k, 0), m_b |-> Const(k, 1)]

MPairs == {MPair(k) : k \in 1..(MaxUnits + 1)} \cup {[m_w |-> <<1, 0>>, m_b |-> <<0, 2>>]}

DefaultStrategies ==
    [activation |-> None, kernel_initializer |-> Name("glorot_uniform"),
     kernel_regularizer |-> None, activity_regularizer |-> None,
     kernel_constraint |-> None]

StrategyArgs ==
    {DefaultStrategies,
     [activation |-> Name("relu"), kernel_initializer |-> Name("zeros"),
      kernel_regularizer |-> Name("l2"), activity_regularizer |-> Name("l1"),
      kernel_constraint |-> Name("non_neg")],
     [activation |-> Name("bogus"), kernel_initializer |-> Name("ones"),
      kernel_regularizer |-> None, activity_regularizer |-> None,
      kernel_constraint |-> None]}

CtorArgs(u, m, st) ==
    [keys |-> RequiredArgs \cup (OwnConfigKeys \ {"units"}),
     units |-> u, m_w |-> m.m_w, m_b |-> m.m_b,
     activation |-> st.activation,
     kernel_initializer |-> st.kernel_initializer,
     kernel_regularizer |-> st.kernel_regularizer,
     activity_regularizer |-> st.activity_regularizer,
     kernel_constraint |-> st.kernel_constraint]

\* The constructions of the lifecycle: every units, every (m_w, m_b) and
\* every choice of strategies, the other arguments held at a valid value.
ConstructArgs ==
    {CtorArgs(u, MPair(1), DefaultStrategies) : u \in UnitsArgs}
        \cup {CtorArgs(MaxUnits, m, DefaultStrategies) : m \in MPairs}
        \cup {CtorArgs(MaxUnits, MPair(MaxUnits), st) : st \in StrategyArgs}

\* Shapes of rank 0 to 3; the trailing dimension is None, 0 or positive.
Leads == {<<>>, <<NoneDim>>, <<NoneDim, 2>>}

TrailDims == {NoneDim} \cup 0..MaxDim

Shapes == {<<>>} \cup {l \o <<t>> : l \in Leads, t \in TrailDims}

\* The draws of the random initializer: one representative draw, the kernel
\* whose entries alternate between 1 and -1.
GlorotSamples == {"checker"}

\* The inputs of the lifecycle: one sample (1, -1, 1, ...) of every feature
\* dimension.
Inputs == {PatternArray("checker", 1, d) : d \in 1..MaxDim}

(***************************************************************************)
(* State and operations.                                                   *)
(***************************************************************************)
NoSettings ==
    [units |-> 0, activation |-> Unknown, kernel_initializer |-> Unknown,
     kernel_regularizer |-> Unknown, activity_regularizer |-> Unknown,
     kernel_constraint |-> Unknown]

SettingsOf(s) ==
    [units |-> s.units, activation |-> s.activation,
     kernel_initializer |-> s.kernel_initializer,
     kernel_regularizer |-> s.kernel_regularizer,
     activity_regularizer |-> s.activity_regularizer,
     kernel_constraint |-> s.kernel_constraint]

NoLast ==
    [op |-> "none", raised |-> FALSE, shape |-> <<>>, x |-> NoArray,
     b |-> NoArray, out |-> <<>>, clone |-> NoSettings]

Init ==
    /\ constructed = FALSE
    /\ self = NoUnit
    /\ losses = <<>>
    /\ config = NoConfig
    /\ last = NoLast

Construct ==
    /\ ~constructed
    /\ \E args \in ConstructArgs :
          LET r == InitOutcome(args)
          IN  /\ constructed' = ~r.raised
              /\ self' = r.unit
              /\ last' = [NoLast EXCEPT !.op = "init", !.raised = r.raised]
    /\ UNCHANGED <<losses, config>>

Build ==
    /\ constructed
    /\ \E input_shape \in Shapes, sample \in GlorotSamples :
          LET r == BuildOutcome(self, input_shape, sample)
          IN  /\ self' = r.unit
              /\ last' = [NoLast EXCEPT !.op = "build", !.raised = r.raised,
                                        !.shape = input_shape]
    /\ UNCHANGED <<constructed, losses, config>>

\* The host's forward call: build on first use, then call; call registers F
\* with add_loss and returns b.
CallStep(x, sample) ==
    \E br \in {IF self.built
                  THEN [raised |-> FALSE, err |-> "", unit |-> self]
                  ELSE BuildOutcome(self, x.shape, sample)} :
    \E cr \in {CallOutcome(br.unit, x)} :
    LET raised == br.raised \/ cr.raised
    IN  /\ self' = br.unit
        /\ losses' = IF raised THEN losses ELSE AddLoss(losses, cr.F)
        /\ last' = [NoLast EXCEPT !.op = "call", !.raised = raised, !.x = x,
                                  !.b = IF raised THEN NoArray ELSE cr.b]
        /\ UNCHANGED <<constructed, config>>

Forward ==
    /\ constructed
    /\ Len(losses) < MaxLosses
    /\ \E x \in Inputs, sample \in GlorotSamples : CallStep(x, sample)

\* call invoked directly, without the host's build.
Call ==
    /\ constructed
    /\ Len(losses) < MaxLosses
    /\ \E x \in Inputs :
       \E cr \in {CallOutcome(self, x)} :
          /\ losses' = IF cr.raised THEN losses ELSE AddLoss(losses, cr.F)
          /\ last' = [NoLast EXCEPT !.op = "call", !.raised = cr.raised,
                                    !.x = x, !.b = cr.b]
    /\ UNCHANGED <<constructed, self, config>>

ComputeOutputShape ==
    /\ constructed
    /\ \E input_shape \in Shapes :
          LET r == ComputeOutputShapeOutcome(self, input_shape)
          IN  last' = [NoLast EXCEPT !.op = "compute_output_shape",
                                     !.raised = r.raised,
                                     !.shape = input_shape, !.out = r.out]
    /\ UNCHANGED <<constructed, self, losses, config>>

GetConfig ==
    /\ constructed
    /\ config' = GetConfigOutcome(self)
    /\ last' = [NoLast EXCEPT !.op = "get_config"]
    /\ UNCHANGED <<constructed, self, losses>>

FromConfig ==
    /\ config # NoConfig
    /\ LET r == FromConfigOutcome(config)
       IN  last' = [NoLast EXCEPT !.op = "from_config", !.raised = r.raised,
                                  !.clone = SettingsOf(r.unit)]
    /\ UNCHANGED <<constructed, self, losses, config>>

Next ==
    \/ Construct
    \/ Build
    \/ Forward
    \/ Call
    \/ ComputeOutputShape
    \/ GetConfig
    \/ FromConfig

Spec == Init /\ [][Next]_vars

(***************************************************************************)
(* The forward computation on its own: a built unit whose weights the      *)
(* optimizer has moved to any of KernelPatterns, called once with an input *)
(* of any batch size whose rows are drawn from InputRows.                  *)
(***************************************************************************)
KernelPatterns == {"zeros", "ones", "eye", "neg_eye", "checker"}

InputRows == {"ones", "neg", "checker"}

RowOf(p, d) == [j \in 1..d |-> Pattern(p, 1, j)]

\* The inputs of n rows with d features.
InputsOf(d) ==
    UNION {{[shape |-> <<n, d>>, v |-> [i \in 1..n |-> RowOf(rows[i], d)]] :
               rows \in [1..n -> InputRows]} :
           n \in 1..MaxBatch}

BuiltUnits ==
    {[r.unit EXCEPT !.built = TRUE, !.kernel = PatternArray(p, d, r.unit.units)] :
        r \in {q \in {InitOutcome(CtorArgs(u, m, st)) :
                         u \in 0..MaxUnits, m \in MPairs, st \in StrategyArgs} :
                  ~q.raised},
        p \in KernelPatterns, d \in 1..MaxDim}

InitBuilt ==
    /\ constructed = TRUE
    /\ self \in BuiltUnits
    /\ losses = <<>>
    /\ config = NoConfig
    /\ last = NoLast

ForwardOnce ==
    /\ last = NoLast
    /\ \E x \in InputsOf(self.kernel.shape[1]) : CallStep(x, "checker")

SpecCall == InitBuilt /\ [][ForwardOnce]_vars

(***************************************************************************)
(* Properties.                                                             *)
(***************************************************************************)
Trailing(shape) == shape[Len(shape)]

IsCall(l) == l.op = "call"

Returned(l) == IsCall(l) /\ ~l.raised

\* units is a positive integer and m_w, m_b broadcast to shape (units,).
BroadcastsTo(m, units) == Len(m) \in {1, units}

ValidArguments(s) ==
    /\ s.units >= 1
    /\ BroadcastsTo(s.mw, s.units)
    /\ BroadcastsTo(s.mb, s.units)

\* The entry of m that position j of a row of width units reads.
Entry(m, j) == IF Len(m) = 1 THEN m[1] ELSE m[j]

ThreeHalves == Rat(3, 2)

\* C1: whenever call returns on a built unit with no activation, the value
\* returned has the shape of x.W and holds 0.5 where x.W < 0, 1.0 where
\* x.W = 0 and 1.5 where x.W > 0; with units = 2, x = [[1, -1]] and W the
\* identity it is [[1.5, 0.5]].
C1_BinarizedOutput ==
    (Returned(last) /\ self.activation.obj = "linear") =>
        LET z == Dot(last.x, self.kernel)
        IN  /\ last.b.shape = z.shape
            /\ \A i \in 1..z.shape[1], j \in 1..z.shape[2] :
                  /\ z.v[i][j] < 0 => last.b.v[i][j] = Half
                  /\ z.v[i][j] = 0 => last.b.v[i][j] = One
                  /\ z.v[i][j] > 0 => last.b.v[i][j] = ThreeHalves
            /\ (last.x.v = <<<<1, -1>>>> /\ self.kernel.v = <<<<1, 0>>, <<0, 1>>>>)
                  => last.b.v = <<<<ThreeHalves, Half>>>>

C1_Witness ==
    /\ Returned(last)
    /\ self.activation.obj = "linear"
    /\ self.units = 2
    /\ last.x.v = <<<<1, -1>>>>
    /\ self.kernel.v = <<<<1, 0>>, <<0, 1>>>>
    /\ last.b.v = <<<<ThreeHalves, Half>>>>

\* The loss of the specification at position (i, j): the mean is the mean
\* of row i of y.
SpecLossEntry(s, y, b, i, j) ==
    LET mean_i == Rat(SeqSum(y.v[i]), y.shape[2])
        bij == b.v[i][j]
        yij == FromInt(y.v[i][j])
    IN  RSub(RAdd(RAdd(FromInt(Entry(s.mb, j) - Entry(s.mw, j)),
                       RMul(FromInt(1000), RSquare(RSub(RSub(bij, Half), yij)))),
                  RMul(FromInt(1000), RSquare(RSub(bij, Half)))),
             RMul(FromInt(1000000), RSquare(RSub(bij, mean_i))))

\* C2: every forward call on a built unit with valid arguments, whatever
\* the batch size and units, registers a loss F of the shape (batch, units)
\* of b whose entry (i, j) is (Sw - Sb)[i,j] + 1000*((b[i,j] - 0.5) -
\* y[i,j])^2 + 1000*(b[i,j] - 0.5)^2 - 1000000*(b[i,j] - mean_i)^2, mean_i
\* the mean of row i of y.
C2_LossFormula ==
    (IsCall(last) /\ ValidArguments(self)
        /\ last.x.shape[2] = self.kernel.shape[1]) =>
        /\ ~last.raised
        /\ losses # <<>>
        /\ LET F == losses[Len(losses)]
               y == Activate(self.activation, Dot(last.x, self.kernel))
           IN  /\ F.shape = <<last.x.shape[1], self.units>>
               /\ F.shape = last.b.shape
               /\ \A i \in 1..F.shape[1], j \in 1..F.shape[2] :
                     F.v[i][j] = SpecLossEntry(self, y, last.b, i, j)

\* C10: wherever the forward computation evaluates Sw and Sb, the first
\* loss term Sw - Sb equals m_b - m_w at every position, whatever b, the
\* input and the weights are; with m_w = [0, 0] and m_b = [1, 1] it is
\* [[1, 1]].
FirstTerm(s, x) ==
    LET b == Binarize(Activate(s.activation, Dot(x, s.kernel)))
    IN  Minus(WithinScatter(b, s.mw), BetweenScatter(b, s.mb))

C10_FirstTermConstant ==
    (IsCall(last) /\ ~IsNoArray(FirstTerm(self, last.x))) =>
        LET T == FirstTerm(self, last.x)
        IN  \A i \in 1..T.shape[1], j \in 1..T.shape[2] :
               T.v[i][j] = FromInt(Entry(self.mb, j) - Entry(self.mw, j))

C10_Witness ==
    /\ Returned(last)
    /\ self.mw = <<0, 0>>
    /\ self.mb = <<1, 1>>
    /\ last.x.v = <<<<1, -1>>>>
    /\ self.kernel.v = <<<<1, 0>>, <<0, 1>>>>
    /\ FirstTerm(self, last.x).v = <<<<One, One>>>>

\* C3: a reconstruction of a unit with valid arguments from the record
\* returned by get_config alone succeeds and yields a unit with the same
\* units, activation, kernel initializer, kernel regularizer, activity
\* regularizer and kernel constraint.
C3_RoundTrip ==
    (last.op = "from_config" /\ ValidArguments(self)) =>
        /\ ~last.raised
        /\ last.clone = SettingsOf(self)

\* C4: a unit exists only if units is a positive integer and m_w, m_b
\* broadcast to shape (units,): construction with other arguments fails, so
\* no build or forward call runs on such a unit.
C4_ConstructionValidates == constructed => ValidArguments(self)

\* C5: in every step on a unit with valid arguments units, m_w and m_b
\* keep their construction values, a built unit stays built, and the weight
\* matrix of a built unit keeps its shape, also when build is invoked again.
C5_FixedAfterFirstBuild ==
    [][(constructed /\ ValidArguments(self)) =>
          /\ constructed'
          /\ self'.units = self.units
          /\ self'.mw = self.mw
          /\ self'.mb = self.mb
          /\ self.built =>
                /\ self'.built
                /\ self'.kernel.shape = self.kernel.shape]_vars

\* C6: the unit is either unbuilt (no weight matrix) or built (a weight
\* matrix with units columns); a build, or a forward call of the host, that
\* completes on an unbuilt unit with trailing dimension d leaves it built
\* with a weight matrix of shape (d, units), and nothing else builds a
\* unit; a forward computation that returns ran on an allocated weight
\* matrix.
C6_Lifecycle ==
    [][/\ constructed' =>
             /\ self'.built = ~IsNoArray(self'.kernel)
             /\ self'.built => self'.kernel.shape[2] = self'.units
       /\ (constructed /\ ~self.built /\ last'.op = "build" /\ ~last'.raised) =>
             /\ self'.built
             /\ self'.kernel.shape = <<Trailing(last'.shape), self.units>>
       /\ (constructed /\ ~self.built /\ Returned(last')) =>
             /\ self'.built
             /\ self'.kernel.shape = <<last'.x.shape[2], self.units>>
       /\ (constructed /\ ~self.built /\ self'.built) =>
             last'.op \in {"build", "call"}
       /\ Returned(last') => ~IsNoArray(self'.kernel)]_vars

C6_Witness ==
    /\ Returned(last)
    /\ self.built
    /\ self.units = 1
    /\ self.kernel.shape = <<2, 1>>
    /\ Len(losses) = 1

\* C7 as stated: for units > 0 and every input shape of rank >= 2 with a
\* defined trailing dimension, compute_output_shape returns the shape with
\* only the trailing dimension replaced by units.
C7_OutputShapeDefined ==
    (last.op = "compute_output_shape" /\ self.units > 0
        /\ Len(last.shape) >= 2 /\ Trailing(last.shape) # NoneDim) =>
        /\ ~last.raised
        /\ Len(last.out) = Len(last.shape)
        /\ last.out[Len(last.out)] = self.units
        /\ \A i \in 1..(Len(last.shape) - 1) : last.out[i] = last.shape[i]

\* C7 amended: for units > 0 and every input shape of rank >= 2 with a
\* defined and non-zero trailing dimension, compute_output_shape returns
\* the shape with only the trailing dimension replaced by units, on an
\* unbuilt and on a built unit alike; called again with the same shape it
\* returns the same result; it changes no state of the unit.
C7_OutputShape ==
    [][(last'.op = "compute_output_shape") =>
          /\ (self'.units > 0 /\ Len(last'.shape) >= 2
                 /\ Trailing(last'.shape) \notin {NoneDim, 0}) =>
                /\ ~last'.raised
                /\ Len(last'.out) = Len(last'.shape)
                /\ last'.out[Len(last'.out)] = self'.units
                /\ \A i \in 1..(Len(last'.shape) - 1) :
                      last'.out[i] = last'.shape[i]
          /\ (last.op = "compute_output_shape" /\ last.shape = last'.shape) =>
                last' = last
          /\ <<constructed, self, losses, config>>' =
                <<constructed, self, losses, config>>]_vars

C7_Witness ==
    /\ last.op = "compute_output_shape"
    /\ last.shape = <<NoneDim, 2, 1>>
    /\ self.units = 2
    /\ self.built
    /\ last.out = <<NoneDim, 2, 2>>

\* C8: build raises when the input shape has fewer than 2 dimensions or an
\* undefined trailing dimension, compute_output_shape raises when the
\* input shape is empty or its trailing dimension is undefined, and a build
\* that raises allocates no weight matrix and leaves the unit as it was.
C8_ShapeValidation ==
    [][/\ (last'.op = "build"
             /\ (Len(last'.shape) < 2 \/ Trailing(last'.shape) = NoneDim)) =>
             last'.raised
       /\ (last'.op = "compute_output_shape"
             /\ (last'.shape = <<>> \/ Trailing(last'.shape) = NoneDim)) =>
             last'.raised
       /\ (last'.op = "build" /\ last'.raised) =>
             /\ self' = self
             /\ losses' = losses]_vars

C8_Witness ==
    /\ last.op = "build"
    /\ last.raised
    /\ Len(last.shape) = 1
    /\ Trailing(last.shape) = 2
    /\ ~self.built
    /\ IsNoArray(self.kernel)

\* C9: a forward call on a built unit that returns gives back b alone (an
\* array of the shape (batch, units) with entries in {0.5, 1, 1.5}) and
\* appends exactly one loss to the registered losses; a forward call that
\* raises registers nothing; either way the weight matrix, units, m_w, m_b
\* and the lifecycle state are as before.
C9_ForwardFrame ==
    [][(constructed /\ self.built /\ IsCall(last')) =>
          /\ self' = self
          /\ constructed' = constructed
          /\ config' = config
          /\ last'.raised => losses' = losses
          /\ ~last'.raised =>
                /\ Len(losses') = Len(losses) + 1
                /\ SubSeq(losses', 1, Len(losses)) = losses
                /\ last'.b.shape = <<last'.x.shape[1], self.units>>
                /\ \A i \in 1..last'.b.shape[1], j \in 1..last'.b.shape[2] :
                      last'.b.v[i][j] \in {Half, One, ThreeHalves}]_vars

C9_Witness ==
    /\ Returned(last)
    /\ self.built
    /\ Len(losses) = 2

====
